---- MODULE Spec2Model ----
(***************************************************************************)
(* Natal chart computation of src/utils/natal_csv_generator.py:            *)
(* _longitude_to_sign, _best_match_ascendant, _safe_load_ephemeris,        *)
(* _placeholder_planets and compute_natal_chart.                           *)
(*                                                                         *)
(* Longitudes and degrees are Python floats.  A float is modelled as an    *)
(* integer count of units of 1/Scale degree in a binary floating-point     *)
(* format of MantBits significant bits (IEEE-754 double has 53): below     *)
(* 2^MantBits units every integer count is representable, in the next      *)
(* binade every second one, then every fourth, and so on.  An operation    *)
(* whose exact result is not representable rounds to nearest, ties to      *)
(* even, as the hardware does.                                             *)
(***************************************************************************)
EXTENDS Integers, Naturals, Sequences, FiniteSets, TLC

VARIABLES
    pc,             \* position of the current compute_natal_chart call
    calls,          \* number of compute_natal_chart calls started
    inputs,         \* the NatalInputs of the current call
    ephemeris,      \* local `ephemeris`: "unset", "none" or "loaded"
    setupIdx,       \* number of set-up statements (lines 209-230) completed
    planets,        \* local dict `planets`
    bodyIdx,        \* number of bodies whose loop iteration completed
    candIdx,        \* number of ascendant candidates visited
    best_score,     \* _best_match_ascendant local
    best_longitude, \* _best_match_ascendant local
    evaluated,      \* history: outcome of every candidate visited so far
    ascFault,       \* history: _best_match_ascendant left through line 141
    result,         \* the record returned to the caller
    returned,       \* the call has returned `result`
    propagated,     \* an exception left compute_natal_chart
    faulted,        \* history: an exception was raised inside the call
    executed,       \* history: the steps executed by the current call
    observed,       \* history: the ephemeris targets observed by the current call
    loads,          \* history: number of ephemeris loads attempted so far
    probe,          \* a single application of _longitude_to_sign
    prev,           \* the inputs, environment and record of the call before
    parked,         \* the frame of a second invocation that is not running
    rowProbe,       \* a single application of build_csv_row
    caller          \* the caller's side: the dict objects it was handed

vars == <<pc, calls, inputs, ephemeris, setupIdx, planets, bodyIdx, candIdx,
          best_score, best_longitude, evaluated, ascFault, result, returned,
          propagated, faulted, executed, observed, loads, probe, prev, parked,
          rowProbe, caller>>

chartVars == <<pc, calls, inputs, ephemeris, setupIdx, planets, bodyIdx,
               candIdx, best_score, best_longitude, evaluated, ascFault,
               result, returned, propagated, faulted, executed, observed,
               loads>>

\* what no step of compute_natal_chart touches
aux == <<probe, prev, parked, rowProbe, caller>>

---------------------------------------------------------------------------
(* Bounds of the model *)

FracBits == 3       \* a unit is 2^-FracBits degree
MantBits == 10      \* significant bits of the float format
NumCandidates == 4  \* ascendant candidates scanned (the program scans 720)
MaxScore == 2       \* candidate scores range over 0..MaxScore
MaxCalls == 2       \* compute_natal_chart calls per behaviour
MaxProbeDeg == 400  \* probes of _longitude_to_sign range over +-MaxProbeDeg

---------------------------------------------------------------------------
(* Floats *)

RECURSIVE Pow2(_)
Pow2(n) == IF n = 0 THEN 1 ELSE 2 * Pow2(n - 1)

Scale == Pow2(FracBits)

Deg(d) == d * Scale

Abs(x) == IF x < 0 THEN -x ELSE x

\* distance between neighbouring floats at magnitude a (in units)
RECURSIVE SpacingFrom(_, _, _)
SpacingFrom(a, limit, s) ==
    IF a < limit THEN s ELSE SpacingFrom(a, 2 * limit, 2 * s)

Spacing(a) == SpacingFrom(a, Pow2(MantBits), 1)

Representable(x) == Abs(x) % Spacing(Abs(x)) = 0

\* the float nearest to the exact value x, ties to even
RoundFloat(x) ==
    LET s == Spacing(Abs(x))
        a == Abs(x)
        q == a \div s
        r == a % s
        m == IF 2 * r < s THEN q
             ELSE IF 2 * r > s THEN q + 1
             ELSE IF q % 2 = 0 THEN q ELSE q + 1
    IN  IF x < 0 THEN -(m * s) ELSE m * s

\* C fmod: exact, with the sign of x
Fmod(x, w) == IF x >= 0 THEN x % w ELSE -((-x) % w)

\* Python's float `x % w` for w > 0 (CPython float_rem): fmod, and a
\* negative remainder has w added to it, in floating point
PyFloatMod(x, w) ==
    LET mod == Fmod(x, w)
    IN  IF mod # 0 /\ mod < 0 THEN RoundFloat(mod + w) ELSE mod

\* mutant: the quotient rounded to nearest instead of floored
PyFloorDivInt_Nearest(x, w) == (x + w \div 2) \div w

\* Python's float `x // w` followed by int(), for x >= 0 and w > 0
PyFloorDivInt(x, w) == x \div w

---------------------------------------------------------------------------
(* Tables *)

SIGN_ORDER ==
    <<"Aries", "Taurus", "Gemini", "Cancer", "Leo", "Virgo", "Libra",
      "Scorpio", "Sagittarius", "Capricorn", "Aquarius", "Pisces">>

Signs == {SIGN_ORDER[i] : i \in 1..Len(SIGN_ORDER)}

Unknown == "Unknown"

BodyNames ==
    <<"Sun", "Moon", "Mercury", "Venus", "Mars", "Jupiter", "Saturn",
      "Uranus", "Neptune", "Pluto">>

Bodies == {BodyNames[i] : i \in 1..Len(BodyNames)}

\* mutant: Jupiter looked up by its body name instead of its barycenter
BodyTargets_JupiterBody ==
    <<"sun", "moon", "mercury", "venus", "mars", "jupiter",
      "saturn barycenter", "uranus barycenter", "neptune barycenter",
      "pluto barycenter">>

\* the ephemeris key each body of `bodies` is looked up with, in order
BodyTargets ==
    <<"sun", "moon", "mercury", "venus", "mars", "jupiter barycenter",
      "saturn barycenter", "uranus barycenter", "neptune barycenter",
      "pluto barycenter">>

Ascendant == "Ascendant"

ChartKeys == Bodies \cup {Ascendant}

---------------------------------------------------------------------------
(* _longitude_to_sign *)

Placement(s, d) == [raised |-> "", sign |-> s, degree |-> d]

Raise(kind) == [raised |-> kind, sign |-> "", degree |-> 0]

\* mutant: the table read one place further on
SignLookup_Shifted(sign_index) ==
    IF sign_index < Len(SIGN_ORDER)
    THEN SIGN_ORDER[((sign_index + 1) % Len(SIGN_ORDER)) + 1]
    ELSE ""

\* SIGN_ORDER[sign_index]: a Python list lookup, IndexError out of range
SignLookup(sign_index) ==
    IF sign_index < Len(SIGN_ORDER) THEN SIGN_ORDER[sign_index + 1] ELSE ""

\* mutant: line 111 returns `normalized` instead of `normalized % 30`
_longitude_to_sign_NoDegreeMod(longitude) ==
    LET normalized == PyFloatMod(longitude, Deg(360))
        sign_index == PyFloorDivInt(normalized, Deg(30))
    IN  IF sign_index < Len(SIGN_ORDER)
        THEN Placement(SignLookup(sign_index), normalized)
        ELSE Raise("IndexError")

_longitude_to_sign(longitude) ==
    LET normalized == PyFloatMod(longitude, Deg(360))
        sign_index == PyFloorDivInt(normalized, Deg(30))
        degree_in_sign == PyFloatMod(normalized, Deg(30))
    IN  IF sign_index < Len(SIGN_ORDER)
        THEN Placement(SignLookup(sign_index), degree_in_sign)
        ELSE Raise("IndexError")

---------------------------------------------------------------------------
(* ra_to_zodiac_sign of dynamic_natal_chart.py *)

\* the function falls off its last elif: Python returns None
PyNone == [raised |-> "", sign |-> "None", degree |-> 0]

\* the sign names of the if/elif chain, in the order of its branches
LegacySigns ==
    <<"Aries", "Taurus", "Gemini", "Cancer", "Leo", "Virgo", "Libra",
      "Scorpio", "Sagittarius", "Capricorn", "Aquarius", "Pisces">>

\* lines 7-30, `degrees` being the value of line 6: branch k holds when
\* 30k <= degrees < 30(k+1) and returns the float degrees - 30k
ra_to_zodiac_sign(degrees) ==
    IF \E k \in 0..(Len(LegacySigns) - 1) :
          Deg(30) * k <= degrees /\ degrees < Deg(30) * (k + 1)
    THEN LET k == CHOOSE k \in 0..(Len(LegacySigns) - 1) :
                     Deg(30) * k <= degrees /\ degrees < Deg(30) * (k + 1)
         IN  Placement(LegacySigns[k + 1], RoundFloat(degrees - Deg(30) * k))
    ELSE PyNone

---------------------------------------------------------------------------
(* Inputs and environment *)

\* What the ephemeris yields for a birth instant and place: the apparent
\* ecliptic longitude of the k-th body is base + (k-1)*stride units
Skies ==
    << [base |-> Deg(0),              stride |-> Deg(36)],
       [base |-> Deg(-10),            stride |-> Deg(40)],
       [base |-> Deg(355),            stride |-> Deg(30) + Scale \div 2],
       [base |-> -1 - 4 * Deg(33),    stride |-> Deg(33)] >>

NatalInputs == [sky : 1..Len(Skies), tzValid : BOOLEAN]

\* mutant: the instant observed is taken from a clock that moves between
\* invocations, not from the inputs
EclipticLon_Clock(inp, k) ==
    RoundFloat(Skies[inp.sky].base + (k - 1) * Skies[inp.sky].stride
               + calls * Deg(30))

\* astrometric.apparent().ecliptic_latlon()[1].degrees for the k-th body
EclipticLon(inp, k) ==
    RoundFloat(Skies[inp.sky].base + (k - 1) * Skies[inp.sky].stride)

\* exception classes a library call may raise; all derive from Exception
FaultKinds == {"AttributeError", "TypeError", "ValueError", "KeyError", "OSError"}

\* the classes matched by `except Exception`
ExceptionKinds == FaultKinds \cup {"IndexError"}

\* `except Exception` of _safe_load_ephemeris (line 175)
CaughtByLoad(kind) == kind \in ExceptionKinds

\* mutant: the handler of line 243 narrowed to ValueError
CaughtByChart_Narrow(kind) == kind = "ValueError"

\* `except Exception` of compute_natal_chart (line 243)
CaughtByChart(kind) == kind \in ExceptionKinds

\* `except (AttributeError, TypeError, ValueError)` of the candidate loop
CaughtByCandidate(kind) == kind \in {"AttributeError", "TypeError", "ValueError"}

\* mutant: the handler of line 141 narrowed to ValueError
CaughtByAscendant_Narrow(kind) == kind = "ValueError"

\* `except Exception` of _best_match_ascendant (line 141)
CaughtByAscendant(kind) == kind \in ExceptionKinds

\* mutant: an unknown zone name falls back to a default zone
TimezoneResolves_Default(inp) == TRUE

\* line 210: pytz.timezone(inputs.timezone) returns for a known zone name
\* and raises UnknownTimeZoneError for any other
TimezoneResolves(inp) == inp.tzValid

\* the statements of the try body before the body loop, in order
SetupSteps ==
    <<"timescale", "timezone", "localize", "from_datetime", "earth",
      "observer", "bodies">>

\* float("inf"): above every score
Inf == MaxScore + 1

\* due east, the azimuth of line 131
East == 90

\* altitude and azimuth of a candidate as observed, in whole degrees: the
\* pairs whose distances from the horizon and from due east sum to at most
\* MaxScore
AltAzSamples ==
    {aa \in (-MaxScore..MaxScore) \X ((East - MaxScore)..(East + MaxScore)) :
        Abs(aa[1]) + Abs(aa[2] - East) <= MaxScore}

\* mutant: line 131 without the absolute values
Score_NoAbs(alt, az) == alt + (az - East)

\* line 131: abs(alt.degrees) + abs(az.degrees - 90)
Score(alt, az) == Abs(alt) + Abs(az - East)

\* mutant: line 132 written with <=, the last of equal candidates wins
ScoreImproves_OrEqual(score, best) == score <= best

\* line 132: `score < best_score`
ScoreImproves(score, best) == score < best

\* the candidate list [x * 0.5 for x in range(0, 720)], x counted from 0
CandidateLongitude(x) == x * (Scale \div 2)

---------------------------------------------------------------------------
(* Dictionaries *)

EmptyDict == [n \in {} |-> [sign |-> Unknown, degree |-> 0]]

Entry(s, d) == [sign |-> s, degree |-> d]

DictSet(dict, key, val) ==
    [n \in (DOMAIN dict) \cup {key} |-> IF n = key THEN val ELSE dict[n]]

\* mutant: line 197 left out, the placeholder has no Ascendant entry
_placeholder_planets_NoAscendant == [n \in Bodies |-> Entry(Unknown, 0)]

_placeholder_planets ==
    DictSet([n \in Bodies |-> Entry(Unknown, 0)], Ascendant, Entry(Unknown, 0))

---------------------------------------------------------------------------
(* compute_natal_chart *)

ChartInit ==
    /\ pc = "idle"
    /\ calls = 0
    /\ inputs = [sky |-> 1, tzValid |-> TRUE]
    /\ ephemeris = "unset"
    /\ setupIdx = 0
    /\ planets = EmptyDict
    /\ bodyIdx = 0
    /\ candIdx = 0
    /\ best_score = Inf
    /\ best_longitude = 0
    /\ evaluated = <<>>
    /\ ascFault = FALSE
    /\ result = EmptyDict
    /\ returned = FALSE
    /\ propagated = FALSE
    /\ faulted = FALSE
    /\ executed = {}
    /\ observed = <<>>
    /\ loads = 0

NoProbe ==
    [lon |-> 0, k |-> 0, applied |-> FALSE, out |-> Raise(""),
     shifted |-> FALSE, out2 |-> Raise(""),
     legacy |-> FALSE, ra |-> PyNone]

\* the frame of an invocation that has not started
IdleFrame ==
    [pc |-> "idle", inputs |-> [sky |-> 1, tzValid |-> TRUE],
     ephemeris |-> "unset", setupIdx |-> 0, planets |-> EmptyDict,
     bodyIdx |-> 0, candIdx |-> 0, best_score |-> Inf, best_longitude |-> 0,
     evaluated |-> <<>>, ascFault |-> FALSE, result |-> EmptyDict,
     returned |-> FALSE, propagated |-> FALSE, faulted |-> FALSE,
     executed |-> {}, observed |-> <<>>, overlapped |-> FALSE]

\* the environment a call met: what each library call did
EnvOf ==
    [ephemeris |-> ephemeris, faulted |-> faulted, ascFault |-> ascFault,
     evaluated |-> evaluated, executed |-> executed]

NoPrev ==
    [valid |-> FALSE, inputs |-> [sky |-> 1, tzValid |-> TRUE],
     env |-> [ephemeris |-> "unset", faulted |-> FALSE, ascFault |-> FALSE,
              evaluated |-> <<>>, executed |-> {}],
     returned |-> FALSE, result |-> EmptyDict]

NoRow == [chart |-> EmptyDict, name |-> "", built |-> FALSE, row |-> <<>>]

\* the caller holds no record yet
NoCaller ==
    [heap |-> <<>>, touched |-> {}, got |-> <<>>, given |-> <<>>,
     rowArg |-> [id |-> 0, touched |-> FALSE]]

AuxInit ==
    /\ prev = NoPrev
    /\ parked = IdleFrame
    /\ rowProbe = NoRow
    /\ caller = NoCaller

Init == ChartInit /\ probe = NoProbe /\ AuxInit

\* `return rec`
Return(rec) ==
    /\ result' = rec
    /\ returned' = TRUE
    /\ pc' = "done"

\* mutant: the handler of line 243 returns the partly filled `planets`
RaiseInTry_Partial(kind) ==
    /\ faulted' = TRUE
    /\ Return(planets)
    /\ UNCHANGED propagated

\* mutant: the exception is swallowed where it is raised and the handler
\* of line 243 never ends the call
RaiseInTry_Swallow(kind) ==
    /\ faulted' = TRUE
    /\ UNCHANGED <<pc, result, returned, propagated>>

\* an exception of class `kind` raised in the try body (lines 208-244)
RaiseInTry(kind) ==
    /\ faulted' = TRUE
    /\ IF CaughtByChart(kind)
       THEN /\ Return(_placeholder_planets)
            /\ UNCHANGED propagated
       ELSE /\ propagated' = TRUE
            /\ pc' = "done"
            /\ UNCHANGED <<result, returned>>

\* a caller invokes compute_natal_chart(inp)
\* a new frame of compute_natal_chart: no local is bound yet and nothing
\* of an earlier invocation is visible
NewFrame ==
    /\ pc' = "load"
    /\ ephemeris' = "unset"
    /\ setupIdx' = 0
    /\ planets' = EmptyDict
    /\ bodyIdx' = 0
    /\ candIdx' = 0
    /\ best_score' = Inf
    /\ best_longitude' = 0
    /\ evaluated' = <<>>
    /\ ascFault' = FALSE
    /\ result' = EmptyDict
    /\ returned' = FALSE
    /\ propagated' = FALSE
    /\ faulted' = FALSE
    /\ executed' = {}
    /\ observed' = <<>>

\* line 201: compute_natal_chart(inputs) is called
Call ==
    /\ pc \in {"idle", "done"}
    /\ calls < MaxCalls
    /\ \E inp \in NatalInputs : inputs' = inp
    /\ calls' = calls + 1
    /\ NewFrame
    /\ UNCHANGED <<loads, aux>>

\* mutant: a process-wide handle, loaded by the first call only
LoadCalls_Cached(n) == IF n = 0 THEN 1 ELSE n

\* lines 166-176: every call of _safe_load_ephemeris calls load("de421.bsp");
\* n is the number of loads the process has made so far
LoadCalls(n) == n + 1

\* lines 204-206: _safe_load_ephemeris, and the `is None` return
LoadEphemeris ==
    /\ pc = "load"
    /\ executed' = executed \cup {"load"}
    /\ \/ /\ ephemeris' = "loaded"
          /\ pc' = "setup"
          /\ UNCHANGED <<result, returned, propagated, faulted>>
       \/ \E kind \in FaultKinds :
            /\ faulted' = TRUE
            /\ IF CaughtByLoad(kind)
               THEN /\ ephemeris' = "none"
                    /\ Return(_placeholder_planets)
                    /\ UNCHANGED propagated
               ELSE /\ propagated' = TRUE
                    /\ pc' = "done"
                    /\ UNCHANGED <<ephemeris, result, returned>>
    /\ loads' = LoadCalls(loads)
    /\ UNCHANGED <<calls, inputs, setupIdx, planets, bodyIdx, candIdx,
                   best_score, best_longitude, evaluated, ascFault, observed,
                   aux>>

\* lines 209-230, one statement at a time
Setup ==
    /\ pc = "setup"
    /\ LET step == SetupSteps[setupIdx + 1]
       IN  /\ executed' = executed \cup {step}
           /\ \/ /\ step = "timezone" => TimezoneResolves(inputs)
                 /\ setupIdx' = setupIdx + 1
                 /\ pc' = IF setupIdx + 1 = Len(SetupSteps) THEN "bodies" ELSE "setup"
                 /\ UNCHANGED <<result, returned, propagated, faulted>>
              \/ /\ \E kind \in FaultKinds : RaiseInTry(kind)
                 /\ UNCHANGED setupIdx
    /\ UNCHANGED <<calls, inputs, ephemeris, planets, bodyIdx, candIdx,
                   best_score, best_longitude, evaluated, ascFault, observed,
                   loads, aux>>

\* lines 233-237: one iteration of the body loop
ObserveBody ==
    /\ pc = "bodies"
    /\ LET name == BodyNames[bodyIdx + 1]
           placed == _longitude_to_sign(EclipticLon(inputs, bodyIdx + 1))
       IN  /\ executed' = executed \cup {name}
           /\ observed' = Append(observed, BodyTargets[bodyIdx + 1])
           /\ \/ /\ placed.raised = ""
                 /\ planets' = DictSet(planets, name, Entry(placed.sign, placed.degree))
                 /\ bodyIdx' = bodyIdx + 1
                 /\ pc' = IF bodyIdx + 1 = Len(BodyNames) THEN "ascendant" ELSE "bodies"
                 /\ UNCHANGED <<result, returned, propagated, faulted>>
              \/ /\ placed.raised # ""
                 /\ RaiseInTry(placed.raised)
                 /\ UNCHANGED <<planets, bodyIdx>>
              \/ /\ \E kind \in FaultKinds : RaiseInTry(kind)
                 /\ UNCHANGED <<planets, bodyIdx>>
    /\ UNCHANGED <<calls, inputs, ephemeris, setupIdx, candIdx, best_score,
                   best_longitude, evaluated, ascFault, loads, aux>>

\* mutant: line 240 left out, the dict is returned without the Ascendant
StoreAscendant_Skip(placed) ==
    /\ planets' = planets
    /\ Return(planets')
    /\ UNCHANGED <<propagated, faulted>>

\* lines 239-242 once _best_match_ascendant has produced `placed`:
\* the Ascendant entry is stored and the dict returned
StoreAscendant(placed) ==
    /\ planets' = DictSet(planets, Ascendant, Entry(placed.sign, placed.degree))
    /\ Return(planets')
    /\ UNCHANGED <<propagated, faulted>>

\* mutant: the default of line 143 is the "Unknown" sentinel
RaiseInAscendant_Unknown(kind) ==
    /\ ascFault' = TRUE
    /\ StoreAscendant(Placement(Unknown, 0))

\* mutant: _best_match_ascendant has no handler of its own, its fault
\* reaches line 243
RaiseInAscendant_Placeholder(kind) ==
    /\ ascFault' = TRUE
    /\ RaiseInTry(kind)
    /\ UNCHANGED planets

\* an exception of class `kind` inside the try body of _best_match_ascendant
\* that the candidate loop did not absorb (lines 141-143)
RaiseInAscendant(kind) ==
    /\ ascFault' = TRUE
    /\ IF CaughtByAscendant(kind)
       THEN StoreAscendant(Placement("Aries", 0))
       ELSE RaiseInTry(kind) /\ UNCHANGED planets

\* lines 122-124: _best_match_ascendant is entered
AscendantBegin ==
    /\ pc = "ascendant"
    /\ executed' = executed \cup {Ascendant}
    /\ best_score' = Inf
    /\ best_longitude' = 0
    /\ candIdx' = 0
    /\ evaluated' = <<>>
    /\ pc' = "candidates"
    /\ UNCHANGED <<calls, inputs, ephemeris, setupIdx, planets, bodyIdx,
                   ascFault, result, returned, propagated, faulted, observed,
                   loads, aux>>

\* lines 125-138: one iteration of the candidate loop
AscendantCandidate ==
    /\ pc = "candidates"
    /\ candIdx < NumCandidates
    /\ LET longitude == CandidateLongitude(candIdx)
       IN  \/ \E aa \in AltAzSamples :
                LET score == Score(aa[1], aa[2])
                IN  /\ evaluated' = Append(evaluated,
                            [longitude |-> longitude, ok |-> TRUE,
                             score |-> score, exact |-> aa = <<0, East>>])
                    /\ IF ScoreImproves(score, best_score)
                       THEN best_score' = score /\ best_longitude' = longitude
                       ELSE UNCHANGED <<best_score, best_longitude>>
                /\ candIdx' = candIdx + 1
                /\ UNCHANGED <<pc, planets, ascFault, result, returned,
                               propagated, faulted>>
           \/ \E kind \in FaultKinds :
                /\ evaluated' = Append(evaluated,
                        [longitude |-> longitude, ok |-> FALSE, score |-> Inf,
                         exact |-> FALSE])
                /\ IF CaughtByCandidate(kind)
                   THEN /\ candIdx' = candIdx + 1
                        /\ UNCHANGED <<pc, planets, ascFault, result, returned,
                                       propagated, faulted, best_score,
                                       best_longitude>>
                   ELSE /\ RaiseInAscendant(kind)
                        /\ UNCHANGED <<candIdx, best_score, best_longitude>>
    /\ UNCHANGED <<calls, inputs, ephemeris, setupIdx, bodyIdx, executed,
                   observed, loads, aux>>

\* line 140, then lines 239-242
AscendantReturn ==
    /\ pc = "candidates"
    /\ candIdx = NumCandidates
    /\ LET placed == _longitude_to_sign(best_longitude)
       IN  IF placed.raised = ""
           THEN StoreAscendant(placed) /\ UNCHANGED ascFault
           ELSE RaiseInAscendant(placed.raised)
    /\ UNCHANGED <<calls, inputs, ephemeris, setupIdx, bodyIdx, candIdx,
                   best_score, best_longitude, evaluated, executed, observed,
                   loads, aux>>

\* a step of the call in progress
ChartStep ==
    \/ LoadEphemeris
    \/ Setup
    \/ ObserveBody
    \/ AscendantBegin
    \/ AscendantCandidate
    \/ AscendantReturn

Next ==
    \/ Call
    \/ LoadEphemeris
    \/ Setup
    \/ ObserveBody
    \/ AscendantBegin
    \/ AscendantCandidate
    \/ AscendantReturn

Spec == Init /\ [][Next]_vars

---------------------------------------------------------------------------
(* compute_natal_chart twice on the same inputs, the libraries behaving    *)
(* the second time as they did the first                                   *)

\* the first invocation
FirstCall ==
    /\ pc = "idle"
    /\ Call

\* the second invocation: same inputs; what the first met and returned is
\* kept in `prev`
CallAgain ==
    /\ pc = "done"
    /\ calls = 1
    /\ ~prev.valid
    /\ prev' = [valid |-> TRUE, inputs |-> inputs, env |-> EnvOf,
                returned |-> returned, result |-> result]
    /\ inputs' = inputs
    /\ calls' = calls + 1
    /\ NewFrame
    /\ UNCHANGED <<loads, probe, parked, rowProbe, caller>>

\* the second invocation has met, so far, what the first met: the same
\* ephemeris availability, the same faults at the same statements, the same
\* altitude and azimuth at every candidate
Replays ==
    prev.valid =>
        /\ inputs = prev.inputs
        /\ ephemeris \in {"unset", prev.env.ephemeris}
        /\ faulted => prev.env.faulted
        /\ ascFault => prev.env.ascFault
        /\ executed \subseteq prev.env.executed
        /\ Len(evaluated) <= Len(prev.env.evaluated)
        /\ evaluated = SubSeq(prev.env.evaluated, 1, Len(evaluated))
        /\ pc = "done" => EnvOf = prev.env

\* a step of the invocation in progress, under the same library behaviour
ReplayStep ==
    /\ ChartStep
    /\ Replays'

TwiceNext ==
    \/ FirstCall
    \/ CallAgain
    \/ ReplayStep

SpecTwice == Init /\ [][TwiceNext]_vars

---------------------------------------------------------------------------
(* Two invocations in one process, their steps interleaved. Each has its   *)
(* own frame; the frame that is not running is held in `parked`.           *)
(* What the libraries answer is fixed by the inputs.                       *)

\* the altitude and azimuth the i-th candidate is seen at, for these inputs
ScriptSample(inp, i) == <<0, East + ((i + inp.sky) % (MaxScore + 1))>>

\* the candidates whose construction raises ValueError, for these inputs
ScriptSkips(inp, i) == inp.sky = 2 /\ i = 1

\* what the candidate loop meets, for these inputs
ScriptEvaluated(inp) ==
    [i \in 1..NumCandidates |->
        IF ScriptSkips(inp, i)
        THEN [longitude |-> CandidateLongitude(i - 1), ok |-> FALSE,
              score |-> Inf, exact |-> FALSE]
        ELSE [longitude |-> CandidateLongitude(i - 1), ok |-> TRUE,
              score |-> Score(ScriptSample(inp, i)[1], ScriptSample(inp, i)[2]),
              exact |-> ScriptSample(inp, i) = <<0, East>>]]

\* the running invocation has met what its inputs fix: the ephemeris
\* loads, no library call of the ascendant search fails outside a
\* candidate, the candidates are seen as scripted
Scripted ==
    /\ ephemeris # "none"
    /\ ~ascFault
    /\ evaluated = SubSeq(ScriptEvaluated(inputs), 1, Len(evaluated))

\* the statement about to run raises under these inputs: pytz does not
\* know the time zone, or _longitude_to_sign rejects the body's longitude
FaultDue ==
    \/ pc = "setup" /\ SetupSteps[setupIdx + 1] = "timezone" /\ ~inputs.tzValid
    \/ pc = "bodies" /\ _longitude_to_sign(EclipticLon(inputs, bodyIdx + 1)).raised # ""

\* the frame of the running invocation
CurrentFrame ==
    [pc |-> pc, inputs |-> inputs, ephemeris |-> ephemeris,
     setupIdx |-> setupIdx, planets |-> planets, bodyIdx |-> bodyIdx,
     candIdx |-> candIdx, best_score |-> best_score,
     best_longitude |-> best_longitude, evaluated |-> evaluated,
     ascFault |-> ascFault, result |-> result, returned |-> returned,
     propagated |-> propagated, faulted |-> faulted, executed |-> executed,
     observed |-> observed, overlapped |-> parked.overlapped]

InFlight(frame) == frame.pc \notin {"idle", "done"}

\* the frame parked by a switch; it notes whether both invocations were
\* in progress at some switch
ParkedFrame ==
    [CurrentFrame EXCEPT
        !.overlapped = parked.overlapped
                       \/ (InFlight(CurrentFrame) /\ InFlight(parked))]

\* mutant: best_score and best_longitude are module-level, one pair for
\* both invocations
Switch_SharedBest ==
    /\ pc # "idle" \/ parked.pc # "idle"
    /\ parked' = ParkedFrame
    /\ pc' = parked.pc
    /\ inputs' = parked.inputs
    /\ ephemeris' = parked.ephemeris
    /\ setupIdx' = parked.setupIdx
    /\ planets' = parked.planets
    /\ bodyIdx' = parked.bodyIdx
    /\ candIdx' = parked.candIdx
    /\ evaluated' = parked.evaluated
    /\ ascFault' = parked.ascFault
    /\ result' = parked.result
    /\ returned' = parked.returned
    /\ propagated' = parked.propagated
    /\ faulted' = parked.faulted
    /\ executed' = parked.executed
    /\ observed' = parked.observed
    /\ UNCHANGED <<best_score, best_longitude, calls, loads, probe, prev,
                   rowProbe, caller>>

\* the scheduler leaves the running invocation and resumes the other: every
\* local of compute_natal_chart and _best_match_ascendant belongs to the
\* frame
Switch ==
    /\ pc # "idle" \/ parked.pc # "idle"
    /\ parked' = ParkedFrame
    /\ pc' = parked.pc
    /\ inputs' = parked.inputs
    /\ ephemeris' = parked.ephemeris
    /\ setupIdx' = parked.setupIdx
    /\ planets' = parked.planets
    /\ bodyIdx' = parked.bodyIdx
    /\ candIdx' = parked.candIdx
    /\ best_score' = parked.best_score
    /\ best_longitude' = parked.best_longitude
    /\ evaluated' = parked.evaluated
    /\ ascFault' = parked.ascFault
    /\ result' = parked.result
    /\ returned' = parked.returned
    /\ propagated' = parked.propagated
    /\ faulted' = parked.faulted
    /\ executed' = parked.executed
    /\ observed' = parked.observed
    /\ UNCHANGED <<calls, loads, probe, prev, rowProbe, caller>>

\* an invocation starts in a frame that has run none, on inputs other than
\* those of the invocation in the other frame
ConcCall ==
    /\ pc = "idle"
    /\ \E inp \in NatalInputs :
          /\ parked.pc # "idle" => inp # parked.inputs
          /\ inputs' = inp
    /\ calls' = calls + 1
    /\ NewFrame
    /\ UNCHANGED <<loads, aux>>

\* a step of the running invocation
ConcStep ==
    /\ ChartStep
    /\ Scripted'
    /\ faulted' => FaultDue

ConcNext ==
    \/ ConcCall
    \/ Switch
    \/ ConcStep

SpecConc == Init /\ [][ConcNext]_vars

---------------------------------------------------------------------------
(* _longitude_to_sign on its own: one longitude, and the same longitude    *)
(* moved by k whole turns when that sum is itself a float                   *)

ProbeLongitudes ==
    {x \in -Deg(MaxProbeDeg)..Deg(MaxProbeDeg) : Representable(x)}

ProbeTurns == {-1, 0, 1}

Shifted(lon, k) == lon + k * Deg(360)

SignInit ==
    /\ ChartInit
    /\ AuxInit
    /\ probe \in {[NoProbe EXCEPT !.lon = x, !.k = k] :
                     x \in ProbeLongitudes, k \in ProbeTurns}

\* _longitude_to_sign(lon)
ProbeSign ==
    /\ ~probe.applied
    /\ probe' = [probe EXCEPT !.applied = TRUE,
                              !.out = _longitude_to_sign(probe.lon)]
    /\ UNCHANGED <<chartVars, prev, parked, rowProbe, caller>>

\* _longitude_to_sign(lon + 360 * k)
ProbeShifted ==
    /\ probe.applied
    /\ ~probe.shifted
    /\ Representable(Shifted(probe.lon, probe.k))
    /\ probe' = [probe EXCEPT !.shifted = TRUE,
                              !.out2 = _longitude_to_sign(Shifted(probe.lon, probe.k))]
    /\ UNCHANGED <<chartVars, prev, parked, rowProbe, caller>>

\* ra_to_zodiac_sign with line 6 giving the same value of degrees
ProbeLegacy ==
    /\ probe.applied
    /\ ~probe.legacy
    /\ probe' = [probe EXCEPT !.legacy = TRUE,
                              !.ra = ra_to_zodiac_sign(probe.lon)]
    /\ UNCHANGED <<chartVars, prev, parked, rowProbe, caller>>

SignNext == ProbeSign \/ ProbeShifted \/ ProbeLegacy

SpecSign == SignInit /\ [][SignNext]_vars

---------------------------------------------------------------------------
(* build_csv_row and its helpers, applied to one chart *)

SIGN_ELEMENTS ==
    [s \in Signs |->
        CASE s \in {"Aries", "Leo", "Sagittarius"} -> "Fire"
          [] s \in {"Taurus", "Virgo", "Capricorn"} -> "Earth"
          [] s \in {"Gemini", "Libra", "Aquarius"} -> "Air"
          [] s \in {"Cancer", "Scorpio", "Pisces"} -> "Water"]

SIGN_MODALITIES ==
    [s \in Signs |->
        CASE s \in {"Aries", "Cancer", "Libra", "Capricorn"} -> "Cardinal"
          [] s \in {"Taurus", "Leo", "Scorpio", "Aquarius"} -> "Fixed"
          [] s \in {"Gemini", "Virgo", "Sagittarius", "Pisces"} -> "Mutable"]

SIGN_DATE_RANGES ==
    [s \in Signs |->
        CASE s = "Aries" -> "Mar 21 - Apr 19"
          [] s = "Taurus" -> "Apr 20 - May 20"
          [] s = "Gemini" -> "May 21 - Jun 20"
          [] s = "Cancer" -> "Jun 21 - Jul 22"
          [] s = "Leo" -> "Jul 23 - Aug 22"
          [] s = "Virgo" -> "Aug 23 - Sep 22"
          [] s = "Libra" -> "Sep 23 - Oct 22"
          [] s = "Scorpio" -> "Oct 23 - Nov 21"
          [] s = "Sagittarius" -> "Nov 22 - Dec 21"
          [] s = "Capricorn" -> "Dec 22 - Jan 19"
          [] s = "Aquarius" -> "Jan 20 - Feb 18"
          [] s = "Pisces" -> "Feb 19 - Mar 20"]

CHART_RULERS ==
    [s \in Signs |->
        CASE s = "Aries" -> "Mars"
          [] s = "Taurus" -> "Venus"
          [] s = "Gemini" -> "Mercury"
          [] s = "Cancer" -> "Moon"
          [] s = "Leo" -> "Sun"
          [] s = "Virgo" -> "Mercury"
          [] s = "Libra" -> "Venus"
          [] s = "Scorpio" -> "Pluto"
          [] s = "Sagittarius" -> "Jupiter"
          [] s = "Capricorn" -> "Saturn"
          [] s = "Aquarius" -> "Uranus"
          [] s = "Pisces" -> "Neptune"]

\* dict.get(key, default) on one of the sign tables
Get(table, key, default) ==
    IF key \in DOMAIN table THEN table[key] ELSE default

\* the key order of `totals` in _dominant_element
ElementOrder == <<"Fire", "Earth", "Air", "Water">>

\* mutant: `totals` of _dominant_modality with Fixed as its first key
ModalityOrder_FixedFirst == <<"Fixed", "Cardinal", "Mutable">>

\* the key order of `totals` in _dominant_modality
ModalityOrder == <<"Cardinal", "Fixed", "Mutable">>

\* mutant: every entry weighs 1
Weight_Flat(planet) == 1

\* weights.get(planet, 1)
Weight(planet) ==
    IF planet \in {"Sun", "Moon", "Ascendant"} THEN 3
    ELSE IF planet \in {"Mercury", "Venus", "Mars"} THEN 2
    ELSE 1

\* SIGN_ELEMENTS.get(sign, "Earth")
ElementOf(sign) == Get(SIGN_ELEMENTS, sign, "Earth")

RECURSIVE SumWeights(_)
\* the weights of a set of chart keys, added up
SumWeights(keys) ==
    IF keys = {} THEN 0
    ELSE LET k == CHOOSE k \in keys : TRUE
         IN  Weight(k) + SumWeights(keys \ {k})

\* totals[element] once the loop of _dominant_element has ended
ElementTotal(chart, element) ==
    SumWeights({k \in DOMAIN chart : ElementOf(chart[k].sign) = element})

\* totals[modality] once the loop of _dominant_modality has ended: an entry
\* whose sign has no modality is passed over
ModalityTotal(chart, modality) ==
    Cardinality({k \in DOMAIN chart :
                    Get(SIGN_MODALITIES, chart[k].sign, "") = modality})

\* max(totals, key=totals.get): the first key, in key order, of maximal total
_dominant_element(chart) ==
    LET n == Len(ElementOrder)
        t(i) == ElementTotal(chart, ElementOrder[i])
        first == CHOOSE i \in 1..n :
                    \A j \in 1..n : t(j) <= t(i) /\ (j < i => t(j) < t(i))
    IN  ElementOrder[first]

_dominant_modality(chart) ==
    LET n == Len(ModalityOrder)
        t(i) == ModalityTotal(chart, ModalityOrder[i])
        first == CHOOSE i \in 1..n :
                    \A j \in 1..n : t(j) <= t(i) /\ (j < i => t(j) < t(i))
    IN  ModalityOrder[first]

\* mutant: a body absent from the chart reads as the empty string
planet_sign_Empty(chart, planet) ==
    IF planet \in DOMAIN chart THEN chart[planet].sign ELSE ""

\* planets.get(planet, {}).get("sign", "Unknown"), `chart` being planets
planet_sign(chart, planet) ==
    IF planet \in DOMAIN chart THEN chart[planet].sign ELSE Unknown

\* lines 250-286: the row, under its field names; an f-string is the
\* tuple of its pieces
build_csv_row(chart, name) ==
    LET sun_sign == planet_sign(chart, "Sun")
        moon_sign == planet_sign(chart, "Moon")
        rising_sign == planet_sign(chart, Ascendant)
        dominant_element == _dominant_element(chart)
        dominant_modality == _dominant_modality(chart)
        chart_ruler == Get(CHART_RULERS, rising_sign, "")
    IN  [Name |-> name,
         SunSign |-> sun_sign,
         MoonSign |-> moon_sign,
         Rising |-> rising_sign,
         DateRange |-> Get(SIGN_DATE_RANGES, sun_sign, ""),
         Mercury |-> planet_sign(chart, "Mercury"),
         Venus |-> planet_sign(chart, "Venus"),
         Mars |-> planet_sign(chart, "Mars"),
         Jupiter |-> planet_sign(chart, "Jupiter"),
         Saturn |-> planet_sign(chart, "Saturn"),
         Uranus |-> planet_sign(chart, "Uranus"),
         Neptune |-> planet_sign(chart, "Neptune"),
         Pluto |-> planet_sign(chart, "Pluto"),
         NorthNode |-> "Calculated node data unavailable in offline mode",
         Chiron |-> "Calculated Chiron data unavailable in offline mode",
         Element |-> dominant_element,
         Modality |-> dominant_modality,
         DominantPlanet |-> IF sun_sign # "" THEN "Sun" ELSE "",
         ChartRuler |-> chart_ruler,
         SoulPurpose |-> <<"Evolve through ", sun_sign,
                           " virtues while rising as ", rising_sign, ".">>,
         ShadowWork |-> <<"Integrate the lessons of ", planet_sign(chart, "Pluto"),
                          " and ", planet_sign(chart, "Saturn"), ".">>,
         LifeLesson |-> <<"Discipline of ", planet_sign(chart, "Saturn"),
                          " in a ", dominant_modality, " path.">>,
         CoreWound |-> "Chiron themes require further calculation.",
         GiftToWorld |-> <<"Jupiter in ", planet_sign(chart, "Jupiter"),
                           " expands your influence.">>]

\* the signs the probe charts are drawn from: every element, every
\* modality, and the sentinel
RowSigns == {"Aries", "Taurus", "Gemini", "Cancer", "Leo", Unknown}

\* the key sets of the probe charts: the full chart, a chart without an
\* Ascendant, a chart with bodies missing, and the empty chart
RowDomains == {ChartKeys, Bodies, ChartKeys \ {"Sun", "Pluto"}, {}}

\* a chart over the keys `dom`: the three lights one sign each, the
\* personal bodies one sign, the outer bodies one sign
RowChart(dom, sun, moon, asc, inner, outer) ==
    [k \in dom |->
        Entry(CASE k = "Sun" -> sun
                [] k = "Moon" -> moon
                [] k = Ascendant -> asc
                [] k \in {"Mercury", "Venus", "Mars"} -> inner
                [] OTHER -> outer, 0)]

RowCharts ==
    {RowChart(dom, sun, moon, asc, inner, outer) :
        dom \in RowDomains, sun \in RowSigns, moon \in RowSigns,
        asc \in RowSigns, inner \in RowSigns, outer \in RowSigns}

\* NatalInputs.name
Names == {"", "Ada"}

RowInit ==
    /\ ChartInit
    /\ probe = NoProbe
    /\ prev = NoPrev
    /\ parked = IdleFrame
    /\ caller = NoCaller
    /\ rowProbe \in {[NoRow EXCEPT !.chart = c] : c \in RowCharts}

\* build_csv_row(planets, inputs)
BuildRow ==
    /\ ~rowProbe.built
    /\ \E name \in Names :
          rowProbe' = [rowProbe EXCEPT !.name = name, !.built = TRUE,
                                       !.row = build_csv_row(rowProbe.chart, name)]
    /\ UNCHANGED <<chartVars, probe, prev, parked, caller>>

RowNext == BuildRow

SpecRow == RowInit /\ [][RowNext]_vars

---------------------------------------------------------------------------
(* The caller's side of two calls. A dict is an object: `heap` holds the   *)
(* content of each object by identity, the caller may write to an object   *)
(* it was handed and may pass it to build_csv_row.                         *)

\* mutant: _placeholder_planets returns one module-level dict, the same
\* object at every fallback
RecordObject_SharedPlaceholder(rec) ==
    IF /\ rec = _placeholder_planets
       /\ \E n \in DOMAIN caller.got : caller.got[n].expect = _placeholder_planets
    THEN caller.got[CHOOSE n \in DOMAIN caller.got :
                       caller.got[n].expect = _placeholder_planets].id
    ELSE Len(caller.heap) + 1

\* the identity of the dict a call returns: `planets` is a new dict of the
\* call (line 232) and _placeholder_planets builds a new dict each time it
\* is called (lines 182-197)
RecordObject(rec) == Len(caller.heap) + 1

\* what the caller writes into a record it holds
Scribbled(dict) == DictSet(dict, "Sun", Entry("Leo", Deg(1)))

\* compute_natal_chart(inp), an earlier and a later call
FrameCall ==
    /\ pc \in {"idle", "done"}
    /\ Len(caller.given) \in {0, 1}
    /\ Len(caller.got) = Len(caller.given)
    /\ \E inp \in NatalInputs :
          /\ inputs' = inp
          /\ caller' = [caller EXCEPT !.given = Append(@, inp)]
    /\ calls' = calls + 1
    /\ NewFrame
    /\ UNCHANGED <<loads, probe, prev, parked, rowProbe>>

\* the caller receives the returned dict: its identity, its content as
\* the caller reads it, the record the call computed, the inputs object
\* after the call
Deliver ==
    /\ pc = "done"
    /\ returned
    /\ Len(caller.got) < Len(caller.given)
    /\ LET id == RecordObject(result)
           heap2 == IF id > Len(caller.heap)
                    THEN Append(caller.heap, result)
                    ELSE caller.heap
       IN  caller' = [caller EXCEPT
                        !.heap = heap2,
                        !.got = Append(@, [id |-> id, value |-> heap2[id],
                                           expect |-> result, arg |-> inputs])]
    /\ UNCHANGED <<chartVars, probe, prev, parked, rowProbe>>

\* between calls the caller writes into a record it was handed
Scribble ==
    /\ pc = "done"
    /\ \E n \in DOMAIN caller.got :
          LET id == caller.got[n].id
          IN  /\ \A t \in caller.touched : t.id # id
              /\ caller' = [caller EXCEPT
                               !.heap[id] = Scribbled(@),
                               !.touched = @ \cup {[id |-> id, at |-> calls]}]
    /\ UNCHANGED <<chartVars, probe, prev, parked, rowProbe>>

\* build_csv_row(planets, inputs) on a record the caller holds: the
\* function reads `planets` and writes to no object
FrameRow ==
    /\ pc = "done"
    /\ ~rowProbe.built
    /\ \E n \in DOMAIN caller.got :
          LET id == caller.got[n].id
          IN  /\ rowProbe' = [chart |-> caller.heap[id], name |-> "Ada",
                              built |-> TRUE,
                              row |-> build_csv_row(caller.heap[id], "Ada")]
              /\ caller' = [caller EXCEPT
                               !.rowArg = [id |-> id,
                                           touched |-> \E t \in caller.touched :
                                                          t.id = id]]
    /\ UNCHANGED <<chartVars, probe, prev, parked>>

FrameNext ==
    \/ FrameCall
    \/ ConcStep
    \/ Deliver
    \/ Scribble
    \/ FrameRow

SpecFrame == Init /\ [][FrameNext]_vars

---------------------------------------------------------------------------
(* Properties of compute_natal_chart *)

\* the record is the full placeholder
IsPlaceholder(rec) ==
    /\ DOMAIN rec = ChartKeys
    /\ \A n \in ChartKeys : rec[n] = Entry(Unknown, 0)

BodyIndex(b) == CHOOSE i \in 1..Len(BodyNames) : BodyNames[i] = b

\* the ascendant search evaluated a candidate and finished without fault
AscendantComputed ==
    /\ ~ascFault
    /\ \E i \in 1..Len(evaluated) : evaluated[i].ok

\* C1: compute_natal_chart never raises to its caller: whatever fault occurs
\* at whatever step, no exception propagates, the call that met the fault
\* has returned a record, and a call that has not returned can take a step.
C1_NeverRaises ==
    /\ ~propagated
    /\ (faulted \/ ascFault) => (pc = "done" /\ returned)
    /\ pc = "done" => (returned /\ DOMAIN result # {})
    /\ pc \notin {"idle", "done"} => (~returned /\ ENABLED ChartStep)

C1_Witness ==
    /\ pc = "done"
    /\ faulted
    /\ returned
    /\ bodyIdx >= 1

\* C2: when the ephemeris cannot be loaded the call returns a record with
\* exactly the ten bodies and the Ascendant, each with sign "Unknown" and
\* degree 0, and no step after the load has been executed.
C2_FallbackComplete ==
    ephemeris = "none" =>
        /\ pc = "done"
        /\ returned
        /\ DOMAIN result = Bodies \cup {Ascendant}
        /\ \A n \in DOMAIN result : result[n].sign = Unknown /\ result[n].degree = 0
        /\ executed = {"load"}
        /\ setupIdx = 0 /\ bodyIdx = 0 /\ candIdx = 0 /\ planets = EmptyDict

C2_Witness == ephemeris = "none" /\ returned /\ calls = 1

\* C3: a returned record is either the full placeholder or a fully computed
\* record with no "Unknown" entry; a fault while a body is resolved discards
\* the placements already computed; a run without fault yields no "Unknown".
C3_AllOrNothing ==
    returned =>
        /\ \/ IsPlaceholder(result)
           \/ /\ DOMAIN result = ChartKeys
              /\ \A n \in ChartKeys : result[n].sign \in Signs
        /\ faulted => IsPlaceholder(result)
        /\ ~faulted => \A n \in DOMAIN result : result[n].sign # Unknown

C3_Witness ==
    /\ returned
    /\ faulted
    /\ bodyIdx >= 2
    /\ \A i \in 1..bodyIdx : planets[BodyNames[i]].sign \in Signs
    /\ IsPlaceholder(result)

\* C4: in every outcome the returned record has exactly the eleven keys, and
\* every sign is one of the twelve of SIGN_ORDER or "Unknown".
C4_Shape ==
    returned =>
        /\ DOMAIN result = ChartKeys
        /\ Cardinality(DOMAIN result) = Len(BodyNames) + 1
        /\ \A n \in DOMAIN result : result[n].sign \in Signs \cup {Unknown}

C4_Witness ==
    /\ returned
    /\ ~faulted
    /\ ~ascFault
    /\ result[Ascendant].sign \in Signs

\* C5 as claimed: an entry that carries one of the twelve sign names was
\* produced by a successful computation, the Ascendant entry included.
C5_RealSignMeansComputed ==
    returned =>
        /\ \A b \in Bodies : result[b].sign \in Signs => ~faulted
        /\ result[Ascendant].sign \in Signs => AscendantComputed

\* C5 amended: a body entry that carries one of the twelve sign names was
\* produced by a successful computation of that body.  The Ascendant entry
\* is "Unknown" exactly when the whole record is the placeholder; when the
\* ten bodies were resolved and the ascendant search evaluated no candidate
\* or faulted, the Ascendant entry is the default (Aries, 0).
C5_BodiesMarkedAscendantDefault ==
    returned =>
        /\ \A b \in Bodies : result[b].sign \in Signs =>
              /\ ~faulted
              /\ bodyIdx = Len(BodyNames)
              /\ result[b] = planets[b]
        /\ result[Ascendant].sign = Unknown <=> IsPlaceholder(result)
        /\ (~faulted /\ ~AscendantComputed) => result[Ascendant] = Entry("Aries", 0)

C5_Witness ==
    /\ returned
    /\ ~faulted
    /\ ~AscendantComputed
    /\ result[Ascendant] = Entry("Aries", 0)
    /\ \A b \in Bodies : result[b].sign \in Signs

\* C8: every placement of the chart computation, in the dict being built
\* and in the returned record (bodies, Ascendant, placeholder entries), has
\* a degree d with 0 <= d < 30.
C8_DegreeRange ==
    /\ \A n \in DOMAIN planets :
          0 <= planets[n].degree /\ planets[n].degree < Deg(30)
    /\ \A n \in DOMAIN result :
          0 <= result[n].degree /\ result[n].degree < Deg(30)

C8_Witness ==
    /\ returned
    /\ ~faulted
    /\ result[Ascendant].degree > 0
    /\ \E b \in Bodies : result[b].degree > Deg(20)
    /\ \E b \in Bodies : EclipticLon(inputs, BodyIndex(b)) >= Deg(360)

\* the evaluated candidates, by position in the scan
EvaluatedOk == {i \in 1..Len(evaluated) : evaluated[i].ok}

\* the evaluated candidate of minimal score, the first of them in the scan
MinimalCandidate ==
    CHOOSE i \in EvaluatedOk :
        \A j \in EvaluatedOk :
            \/ evaluated[i].score < evaluated[j].score
            \/ evaluated[i].score = evaluated[j].score /\ i <= j

\* C10: the ascendant estimator returns the placement of the evaluated
\* candidate of minimal score, and of the smallest longitude among those
\* that share the minimal score.
C10_MinimalScoreFirst ==
    (EvaluatedOk # {} /\ ~ascFault /\ pc \in {"candidates", "done"}) =>
        LET lon == evaluated[MinimalCandidate].longitude
        IN  /\ best_longitude = lon
            /\ best_score = evaluated[MinimalCandidate].score
            /\ \A j \in EvaluatedOk :
                  evaluated[j].score = best_score => lon <= evaluated[j].longitude
            /\ (returned /\ ~faulted) =>
                  result[Ascendant] =
                      Entry(SIGN_ORDER[(lon \div Deg(30)) + 1], lon % Deg(30))

C10_Witness ==
    /\ returned
    /\ ~faulted
    /\ ~ascFault
    /\ \E i, j \in EvaluatedOk :
          /\ 1 < i /\ i < j
          /\ evaluated[i].score = evaluated[j].score
          /\ evaluated[i].score < evaluated[1].score
          /\ evaluated[1].ok
          /\ result[Ascendant].degree = evaluated[i].longitude
          /\ \A h \in EvaluatedOk : evaluated[i].score <= evaluated[h].score

\* the placement of a longitude of [0,360), by arc and offset
PlacementOf(lon) == Entry(SIGN_ORDER[(lon \div Deg(30)) + 1], lon % Deg(30))

\* the entry compute_natal_chart stores for a longitude
EntryOf(lon) ==
    Entry(_longitude_to_sign(lon).sign, _longitude_to_sign(lon).degree)

\* the candidates observed with altitude 0 and azimuth 90
ExactCandidates == {i \in EvaluatedOk : evaluated[i].exact}

\* C11: when one candidate has altitude 0 and azimuth 90 and every other
\* candidate has a score |altitude| + |azimuth - 90| above 0, the estimator
\* returns the placement of that candidate.
C11_ExactCandidateWins ==
    (returned /\ ~faulted /\ ~ascFault /\ Cardinality(ExactCandidates) = 1) =>
        LET i == CHOOSE i \in ExactCandidates : TRUE
        IN  /\ best_score = 0
            /\ best_longitude = evaluated[i].longitude
            /\ result[Ascendant] = PlacementOf(evaluated[i].longitude)
            /\ \A j \in EvaluatedOk \ {i} : evaluated[j].score > 0

C11_Witness ==
    /\ returned
    /\ ~faulted
    /\ ~ascFault
    /\ EvaluatedOk = 1..NumCandidates
    /\ ExactCandidates = {NumCandidates - 1}
    /\ result[Ascendant] = PlacementOf(CandidateLongitude(NumCandidates - 2))
    /\ result[Ascendant].degree > 0

\* C12 as claimed: a fault of whatever class at one candidate skips that
\* candidate alone; the scan goes on through every remaining candidate and
\* the result is the candidate of minimal score among those without fault.
C12_FaultIsolated ==
    (\E i \in 1..Len(evaluated) : ~evaluated[i].ok) =>
        /\ ~ascFault
        /\ returned => Len(evaluated) = NumCandidates
        /\ (returned /\ ~faulted /\ EvaluatedOk # {}) =>
              result[Ascendant] = PlacementOf(evaluated[MinimalCandidate].longitude)

\* C13: when the search produces no valid candidate, because every
\* candidate was skipped or because the procedure faulted, the estimator
\* returns (Aries, 0) and nothing propagates.
C13_DefaultAries ==
    (/\ bodyIdx = Len(BodyNames)
     /\ \/ ascFault
        \/ pc = "done" /\ candIdx = NumCandidates /\ EvaluatedOk = {}) =>
        /\ pc = "done"
        /\ returned
        /\ ~propagated
        /\ ~faulted
        /\ result[Ascendant] = Entry("Aries", 0)

C13_Witness ==
    /\ returned
    /\ ~ascFault
    /\ Len(evaluated) = NumCandidates
    /\ EvaluatedOk = {}
    /\ result[Ascendant] = Entry("Aries", 0)

\* C16 as claimed: over any sequence of invocations the ephemeris is
\* loaded at most once.
C16_LoadedAtMostOnce == loads <= 1

\* C16, amended: every invocation loads the ephemeris once, at its start,
\* so the loads made equal the invocations that passed their first
\* statement; the handle is local and stays as loaded until the return.
C16_LoadedOncePerInvocation ==
    /\ pc = "idle" => loads = 0
    /\ pc = "load" => loads = calls - 1
    /\ pc \notin {"idle", "load"} => loads = calls
    /\ pc \in {"setup", "bodies", "ascendant", "candidates"} => ephemeris = "loaded"
    /\ (pc = "done" /\ executed # {"load"}) => ephemeris = "loaded"

C16_Witness ==
    /\ pc = "done"
    /\ returned
    /\ ~faulted
    /\ calls = 2
    /\ loads = 2

\* C18: the ten bodies are observed in the order Sun .. Pluto, each once,
\* the first five by their own ephemeris targets and Jupiter .. Pluto by
\* their barycenter targets.
C18_Targets ==
    LET expected == <<"sun", "moon", "mercury", "venus", "mars",
                      "jupiter barycenter", "saturn barycenter",
                      "uranus barycenter", "neptune barycenter",
                      "pluto barycenter">>
    IN  /\ Len(observed) <= Len(expected)
        /\ observed = SubSeq(expected, 1, Len(observed))
        /\ (returned /\ ~faulted) => observed = expected
        /\ (returned /\ ~faulted) =>
              \A i \in 1..Len(BodyNames) : BodyNames[i] \in DOMAIN result

C18_Witness ==
    /\ returned
    /\ ~faulted
    /\ Len(observed) = 10
    /\ observed[5] = "mars"
    /\ observed[6] = "jupiter barycenter"
    /\ observed[10] = "pluto barycenter"

\* C20: with the ephemeris loaded, a time-zone name that does not resolve
\* makes the call return the all-"Unknown" placeholder: it does not raise
\* and no body is observed for some default zone.
C20_BadTimezonePlaceholder ==
    (pc = "done" /\ ephemeris = "loaded" /\ ~inputs.tzValid) =>
        /\ returned
        /\ ~propagated
        /\ IsPlaceholder(result)
        /\ observed = <<>>
        /\ bodyIdx = 0
        /\ executed \subseteq {"load", "timescale", "timezone"}

C20_Witness ==
    /\ pc = "done"
    /\ returned
    /\ ephemeris = "loaded"
    /\ ~inputs.tzValid
    /\ "timezone" \in executed
    /\ IsPlaceholder(result)

\* C21 as claimed: the ascendant search visits every candidate longitude
\* 0.0, 0.5, ... in ascending order, each once, whether or not a candidate
\* faults.
C21_FullScan ==
    (pc = "done" /\ Ascendant \in executed) =>
        /\ Len(evaluated) = NumCandidates
        /\ candIdx = NumCandidates
        /\ \A i \in 1..Len(evaluated) :
              evaluated[i].longitude = (i - 1) * (Deg(1) \div 2)

\* C23: when the ten bodies were resolved and the ascendant search faults
\* or finds no valid candidate, the call returns the ten computed body
\* placements unchanged with Ascendant = (Aries, 0), never the placeholder.
C23_PlanetsKept ==
    (/\ pc = "done"
     /\ Ascendant \in executed
     /\ ascFault \/ EvaluatedOk = {}) =>
        /\ returned
        /\ ~propagated
        /\ ~IsPlaceholder(result)
        /\ DOMAIN result = ChartKeys
        /\ result[Ascendant] = Entry("Aries", 0)
        /\ \A i \in 1..Len(BodyNames) :
              /\ result[BodyNames[i]] = EntryOf(EclipticLon(inputs, i))
              /\ result[BodyNames[i]] = planets[BodyNames[i]]
              /\ result[BodyNames[i]].sign \in Signs

C23_Witness ==
    /\ pc = "done"
    /\ returned
    /\ ascFault
    /\ Len(evaluated) = 3
    /\ evaluated[1].ok
    /\ evaluated[2].ok
    /\ inputs.sky = 3
    /\ result["Sun"] = Entry("Pisces", Deg(25))
    /\ result[Ascendant] = Entry("Aries", 0)

\* the statements of compute_natal_chart in program order
StepOrder == <<"load">> \o SetupSteps \o BodyNames \o <<Ascendant>>

\* C24: the load attempt comes before every other step, the time zone is
\* localized before any body is observed, the ascendant search starts only
\* after the ten bodies were resolved without fault, and after a fault no
\* later step runs.
C24_StepOrdering ==
    /\ \E n \in 0..Len(StepOrder) : executed = {StepOrder[i] : i \in 1..n}
    /\ executed # {} => "load" \in executed
    /\ ephemeris = "none" => (executed = {"load"} /\ pc = "done")
    /\ executed \cap Bodies # {} =>
          /\ {"timezone", "localize"} \subseteq executed
          /\ setupIdx = Len(SetupSteps)
          /\ inputs.tzValid
          /\ ephemeris = "loaded"
    /\ Ascendant \in executed =>
          /\ Bodies \subseteq executed
          /\ bodyIdx = Len(BodyNames)
          /\ Bodies \subseteq DOMAIN planets
          /\ ~faulted
    /\ faulted =>
          /\ pc = "done"
          /\ Ascendant \notin executed
          /\ evaluated = <<>>
          /\ Cardinality(executed \cap Bodies) <= bodyIdx + 1

C24_Witness ==
    /\ pc = "done"
    /\ returned
    /\ faulted
    /\ ephemeris = "loaded"
    /\ executed \cap Bodies = {"Sun", "Moon", "Mercury"}
    /\ bodyIdx = 2
    /\ Ascendant \notin executed

\* C14: two invocations on identical inputs that meet the same ephemeris
\* availability and the same faults at the same steps return identical
\* records: nothing of the first invocation reaches the second.
C14_Idempotent ==
    (prev.valid /\ pc = "done") =>
        /\ returned = prev.returned
        /\ propagated = FALSE
        /\ result = prev.result

C14_Witness ==
    /\ prev.valid
    /\ pc = "done"
    /\ returned
    /\ ~faulted
    /\ ~ascFault
    /\ EvaluatedOk # {}
    /\ result = prev.result
    /\ result[Ascendant].degree > 0
    /\ result["Sun"].sign # result["Moon"].sign

\* the Ascendant of an invocation that runs alone on these inputs
AloneAscendant(inp) ==
    LET ev == ScriptEvaluated(inp)
        ok == {i \in 1..NumCandidates : ev[i].ok}
        m == CHOOSE i \in ok :
                \A j \in ok : ev[i].score < ev[j].score
                               \/ (ev[i].score = ev[j].score /\ i <= j)
    IN  IF ok = {} THEN Entry("Aries", 0) ELSE EntryOf(ev[m].longitude)

\* the record of an invocation that runs alone on these inputs
Alone(inp) ==
    IF \/ ~inp.tzValid
       \/ \E k \in 1..Len(BodyNames) :
             _longitude_to_sign(EclipticLon(inp, k)).raised # ""
    THEN _placeholder_planets
    ELSE [n \in ChartKeys |->
            IF n = Ascendant THEN AloneAscendant(inp)
            ELSE EntryOf(EclipticLon(inp, BodyIndex(n)))]

\* C15: two invocations on different inputs share no mutable state: under
\* every interleaving of their steps each returns the record it returns
\* when it runs alone.
C15_Isolated ==
    /\ pc = "done" => (returned /\ ~propagated /\ result = Alone(inputs))
    /\ parked.pc = "done" =>
          /\ parked.returned
          /\ ~parked.propagated
          /\ parked.result = Alone(parked.inputs)

C15_Witness ==
    /\ pc = "done"
    /\ parked.pc = "done"
    /\ parked.overlapped
    /\ inputs # parked.inputs
    /\ ~faulted
    /\ ~parked.faulted
    /\ result = Alone(inputs)
    /\ parked.result = Alone(parked.inputs)
    /\ result[Ascendant] # parked.result[Ascendant]
    /\ result["Sun"] # parked.result["Sun"]

\* the identities the caller wrote to
TouchedIds == {t.id : t \in caller.touched}

\* C28: the calls leave their arguments as they were and every call
\* returns a dict built by that call, the placeholder included: what the
\* caller writes into one returned record changes no other record and no
\* result of a later call.
C28_FreshRecords ==
    LET got == caller.got
        given == caller.given
    IN  /\ \A n \in DOMAIN got :
              /\ got[n].value = got[n].expect
              /\ got[n].expect = Alone(given[n])
              /\ got[n].arg = given[n]
              /\ got[n].id \notin TouchedIds => caller.heap[got[n].id] = got[n].expect
              /\ \A m \in DOMAIN got : m # n => got[m].id # got[n].id
        /\ pc # "idle" => inputs = given[Len(given)]
        /\ (rowProbe.built
               /\ (caller.rowArg.id \in TouchedIds) = caller.rowArg.touched) =>
              caller.heap[caller.rowArg.id] = rowProbe.chart

C28_Witness ==
    /\ Len(caller.got) = 2
    /\ caller.got[1].expect = _placeholder_planets
    /\ [id |-> caller.got[1].id, at |-> 1] \in caller.touched
    /\ caller.heap[caller.got[1].id] # _placeholder_planets
    /\ caller.got[2].value = _placeholder_planets
    /\ caller.got[2].id # caller.got[1].id
    /\ rowProbe.built
    /\ caller.rowArg.id = caller.got[1].id

---------------------------------------------------------------------------
(* Properties of build_csv_row *)

\* the chart keys whose sign is a real sign of the given element
RealOfElement(chart, element) ==
    {k \in DOMAIN chart :
        chart[k].sign \in Signs /\ SIGN_ELEMENTS[chart[k].sign] = element}

\* the chart keys whose sign is a real sign of the given modality
RealOfModality(chart, modality) ==
    {k \in DOMAIN chart :
        chart[k].sign \in Signs /\ SIGN_MODALITIES[chart[k].sign] = modality}

\* C17 as claimed: an entry whose sign is "Unknown" adds weight to no
\* element total and to no modality count, and an "Unknown" rising or Sun
\* sign gives an empty ChartRuler and DateRange.
C17_UnknownIsSentinel ==
    rowProbe.built =>
        LET chart == rowProbe.chart
            row == rowProbe.row
        IN  /\ \A i \in 1..Len(ElementOrder) :
                  ElementTotal(chart, ElementOrder[i]) =
                      SumWeights(RealOfElement(chart, ElementOrder[i]))
            /\ \A i \in 1..Len(ModalityOrder) :
                  ModalityTotal(chart, ModalityOrder[i]) =
                      Cardinality(RealOfModality(chart, ModalityOrder[i]))
            /\ row.Rising = Unknown => row.ChartRuler = ""
            /\ row.SunSign = Unknown => row.DateRange = ""

\* the 24 field names of the row
RowFields ==
    {"Name", "SunSign", "MoonSign", "Rising", "DateRange", "Mercury", "Venus",
     "Mars", "Jupiter", "Saturn", "Uranus", "Neptune", "Pluto", "NorthNode",
     "Chiron", "Element", "Modality", "DominantPlanet", "ChartRuler",
     "SoulPurpose", "ShadowWork", "LifeLesson", "CoreWound", "GiftToWorld"}

\* C19: for every chart, computed, placeholder or with bodies missing,
\* build_csv_row returns a row of the same 24 field names, with "Unknown"
\* as the sign of every body the chart lacks, and it does not raise.
C19_FixedFields ==
    /\ ~rowProbe.built => DOMAIN build_csv_row(rowProbe.chart, "") = RowFields
    /\ rowProbe.built =>
        LET chart == rowProbe.chart
            row == rowProbe.row
            signOf(k) == IF k \in DOMAIN chart THEN chart[k].sign ELSE "Unknown"
        IN  /\ DOMAIN row = RowFields
            /\ Cardinality(DOMAIN row) = 24
            /\ row.SunSign = signOf("Sun")
            /\ row.MoonSign = signOf("Moon")
            /\ row.Rising = signOf("Ascendant")
            /\ \A b \in Bodies \ {"Sun", "Moon"} : row[b] = signOf(b)
            /\ row.Name = rowProbe.name

C19_Witness ==
    /\ rowProbe.built
    /\ DOMAIN rowProbe.chart = ChartKeys \ {"Sun", "Pluto"}
    /\ rowProbe.chart["Moon"].sign = "Leo"
    /\ rowProbe.row.Pluto = "Unknown"
    /\ rowProbe.row.SunSign = "Unknown"
    /\ rowProbe.row.MoonSign = "Leo"
    /\ DOMAIN rowProbe.row = RowFields

\* position of x in a sequence without repetition
IndexIn(seq, x) == CHOOSE i \in 1..Len(seq) : seq[i] = x

\* every entry of the chart has one of the twelve signs
AllReal(chart) == \A k \in DOMAIN chart : chart[k].sign \in Signs

\* C25: _dominant_element returns the element of largest weighted total,
\* Sun, Moon and Ascendant weighing 3, Mercury, Venus and Mars 2, every
\* other entry 1; ties go to the first of Fire, Earth, Air, Water; the
\* totals of a fully computed eleven-entry chart sum to 20.
C25_DominantElement ==
    rowProbe.built =>
        LET chart == rowProbe.chart
            order == <<"Fire", "Earth", "Air", "Water">>
            got == rowProbe.row.Element
            of(e) == RealOfElement(chart, e)
            weighted(e) ==
                3 * Cardinality(of(e) \cap {"Sun", "Moon", "Ascendant"})
                + 2 * Cardinality(of(e) \cap {"Mercury", "Venus", "Mars"})
                + Cardinality(of(e) \ {"Sun", "Moon", "Ascendant", "Mercury",
                                       "Venus", "Mars"})
        IN  /\ got = _dominant_element(chart)
            /\ \E i \in 1..4 : order[i] = got
            /\ \A i \in 1..4 :
                  /\ ElementTotal(chart, order[i]) <= ElementTotal(chart, got)
                  /\ i < IndexIn(order, got) =>
                        ElementTotal(chart, order[i]) < ElementTotal(chart, got)
            /\ AllReal(chart) =>
                  \A i \in 1..4 : ElementTotal(chart, order[i]) = weighted(order[i])
            /\ (AllReal(chart) /\ DOMAIN chart = ChartKeys) =>
                  ElementTotal(chart, "Fire") + ElementTotal(chart, "Earth")
                  + ElementTotal(chart, "Air") + ElementTotal(chart, "Water") = 20

C25_Witness ==
    /\ rowProbe.built
    /\ DOMAIN rowProbe.chart = ChartKeys
    /\ AllReal(rowProbe.chart)
    /\ ElementTotal(rowProbe.chart, "Fire") = 6
    /\ ElementTotal(rowProbe.chart, "Earth") = 6
    /\ ElementTotal(rowProbe.chart, "Air") = 3
    /\ ElementTotal(rowProbe.chart, "Water") = 5
    /\ rowProbe.row.Element = "Fire"

\* C26: _dominant_modality returns the modality counted in most entries,
\* each entry counting once; ties go to the first of Cardinal, Fixed,
\* Mutable, so a chart without any real sign is reported as Cardinal.
C26_DominantModality ==
    rowProbe.built =>
        LET chart == rowProbe.chart
            order == <<"Cardinal", "Fixed", "Mutable">>
            got == rowProbe.row.Modality
            count(m) == Cardinality(RealOfModality(chart, m))
        IN  /\ got = _dominant_modality(chart)
            /\ \E i \in 1..3 : order[i] = got
            /\ \A i \in 1..3 :
                  /\ count(order[i]) <= count(got)
                  /\ i < IndexIn(order, got) => count(order[i]) < count(got)
            /\ (\A k \in DOMAIN chart : chart[k].sign \notin Signs) =>
                  got = "Cardinal"

C26_Witness ==
    /\ rowProbe.built
    /\ IsPlaceholder(rowProbe.chart)
    /\ rowProbe.row.Modality = "Cardinal"
    /\ rowProbe.row.Rising = Unknown

---------------------------------------------------------------------------
(* Properties of _longitude_to_sign *)

\* C6: every longitude in [0,360) maps to one of the twelve signs, the sign
\* of the 30-degree arc that holds it, each arc closed at its lower edge and
\* open at its upper edge; 30k maps to the k-th sign with degree 0.
C6_TotalityCoverage ==
    (probe.applied /\ 0 <= probe.lon /\ probe.lon < Deg(360)) =>
        /\ probe.out.raised = ""
        /\ probe.out.sign \in Signs
        /\ \A k \in 0..(Len(SIGN_ORDER) - 1) :
              /\ (Deg(30) * k <= probe.lon /\ probe.lon < Deg(30) * (k + 1))
                    => probe.out.sign = SIGN_ORDER[k + 1]
              /\ probe.lon = Deg(30) * k
                    => probe.out = Placement(SIGN_ORDER[k + 1], 0)

C6_Witness ==
    /\ probe.applied
    /\ probe.lon = Deg(330)
    /\ probe.out = Placement("Pisces", 0)

\* C7: _longitude_to_sign has period 360: it returns a placement for every
\* longitude L, the same placement for L + 360k, and negative longitudes
\* wrap, -10 and 350 both giving (Pisces, 20).
C7_Periodic ==
    probe.applied =>
        /\ probe.out.raised = ""
        /\ probe.shifted => probe.out2 = probe.out
        /\ probe.lon \in {Deg(-10), Deg(350)} => probe.out = Placement("Pisces", Deg(20))

\* C9: _longitude_to_sign has no error case: for every longitude the sign
\* index lies in 0..11 and the lookup in SIGN_ORDER succeeds.
C9_Total ==
    probe.applied =>
        /\ PyFloorDivInt(PyFloatMod(probe.lon, Deg(360)), Deg(30))
              \in 0..(Len(SIGN_ORDER) - 1)
        /\ probe.out.raised # "IndexError"

\* C22: round trip of the projection: when _longitude_to_sign(L) = (s, d)
\* and i is the position of s in SIGN_ORDER, then i = floor((L % 360) / 30)
\* and 30 i + d = L % 360; on [0,360) that is L itself, so two longitudes
\* of [0,360) with the same placement are equal.
C22_RoundTrip ==
    (probe.applied /\ probe.out.raised = "") =>
        LET L == probe.lon
            normalized == PyFloatMod(L, Deg(360))
            d == probe.out.degree
            i == (CHOOSE n \in 1..Len(SIGN_ORDER) :
                     SIGN_ORDER[n] = probe.out.sign) - 1
            near == {L + e : e \in {-Deg(30), -4, -2, -1, 1, 2, 4, Deg(30)}}
        IN  /\ probe.out.sign \in Signs
            /\ 0 <= d /\ d < Deg(30)
            /\ Deg(30) * i <= normalized /\ normalized < Deg(30) * (i + 1)
            /\ Deg(30) * i + d = normalized
            /\ Representable(L % Deg(360)) => normalized = L % Deg(360)
            /\ (0 <= L /\ L < Deg(360)) =>
                  /\ Deg(30) * i + d = L
                  /\ \A m \in near :
                        (0 <= m /\ m < Deg(360) /\ Representable(m))
                            => _longitude_to_sign(m) # probe.out

C22_Witness ==
    /\ probe.applied
    /\ probe.lon = Deg(95) + 3
    /\ probe.out = Placement("Cancer", Deg(5) + 3)

\* C27 as claimed: on [0,360) ra_to_zodiac_sign and _longitude_to_sign
\* return the same sign and degree for the same value of degrees; outside
\* [0,360) ra_to_zodiac_sign returns no placement while _longitude_to_sign
\* wraps the value into a placement.
C27_LegacyAgrees ==
    (probe.applied /\ probe.legacy) =>
        /\ (0 <= probe.lon /\ probe.lon < Deg(360)) => probe.ra = probe.out
        /\ (probe.lon < 0 \/ probe.lon >= Deg(360)) =>
              /\ probe.ra = PyNone
              /\ probe.out.raised = ""
              /\ probe.out.sign \in Signs

====
